---- MODULE Spec2Model ----
(***************************************************************************)
(* Model of the Letterboxd ratings scraper: the paginator and page scraper *)
(* (fetch_ratings.py), the per-user task and the batch orchestrator        *)
(* (read_in_data.py), the run loop (compile_training_data.py), the single  *)
(* user entry point (generate_user_data.py) and the load/save gateway      *)
(* (load_save_and_translate_data.py).                                      *)
(*                                                                         *)
(* Ratings are counted in half stars (3.5 stars is the integer 7).         *)
(* A film id is a pair <<type, n>>: <<"str", n>> is the text taken from    *)
(* the page, <<"int", n>> is what pandas infers when a csv column of       *)
(* digits is read back.                                                    *)
(***************************************************************************)
EXTENDS Integers, Sequences, FiniteSets, TLC

\* ------------------------------------------------------------------ bounds
MaxProcesses == 2
MaxBatches == 2
NumberOfNewUsers == 2
MaxPoolTasks == 6

\* ------------------------------------------------------- program constants
batch_size == 5

max_workers == 5

max_retries == 5

base_delay == 2

\* ----------------------------------------------------------------- helpers
Range(f) == {f[x] : x \in DOMAIN f}

SeqRange(s) == {s[i] : i \in 1..Len(s)}

MaxOf(S, default) == IF S = {} THEN default ELSE CHOOSE m \in S : \A x \in S : x <= m

EmptyMap == [x \in {} |-> 0]

\* dict[k] = v
DictSet(d, k, v) == [x \in DOMAIN d \cup {k} |-> IF x = k THEN v ELSE d[x]]

\* d.update(e)
DictUpdate(d, e) == [x \in DOMAIN d \cup DOMAIN e |-> IF x \in DOMAIN e THEN e[x] ELSE d[x]]

RECURSIVE Flatten(_)
Flatten(ss) == IF ss = <<>> THEN <<>> ELSE Head(ss) \o Flatten(Tail(ss))

\* the injective sequences that list every element of S once
Orderings(S) == {o \in [1..Cardinality(S) -> S] : \A i, j \in 1..Cardinality(S) : o[i] = o[j] => i = j}

\* ---------------------------------------------------------------- the site
Users == {"a", "b", "c"}

Star == "full"
Half == "half"

Item(slug, n, raw) == [film_slug |-> slug, film_id |-> <<"str", n>>, raw_rating |-> raw]

\* The film items of each page of a user's watched-films list. "a" has items
\* on its first page only, "b" has none, "c" lists film 1 under another slug
\* than "a" does and shows it on two pages with two ratings.
SitePages ==
  [u \in Users |->
     CASE u = "a" -> << <<Item("s1", 1, <<Star, Star, Star, Star>>),
                          Item("s3", 2, <<Star, Star, Star, Half>>),
                          Item("s4", 3, <<>>)>> >>
       [] u = "b" -> << >>
       [] u = "c" -> << <<Item("s2", 1, <<Star, Star, Star, Star>>)>>,
                        <<Item("s2", 1, <<Star, Star, Star, Half>>)>> >>]

\* the film items the site serves for page p of user u
PageItems(u, p) == IF p \in 1..Len(SitePages[u]) THEN SitePages[u][p] ELSE <<>>

\* ------------------------------------------------------- fetch_ratings.py
NoRating == -1

\* mutant: the half glyph is not counted
parse_rating_without_half(raw_rating) ==
  IF raw_rating # <<>>
  THEN 2 * Cardinality({i \in 1..Len(raw_rating) : raw_rating[i] = Star})
  ELSE NoRating

parse_rating(raw_rating) ==
  IF raw_rating # <<>>
  THEN LET full_stars == Cardinality({i \in 1..Len(raw_rating) : raw_rating[i] = Star})
           half_star == IF Half \in SeqRange(raw_rating) THEN 1 ELSE 0
       IN 2 * full_stars + half_star
  ELSE NoRating

None == [none |-> TRUE, data |-> <<>>]

RECURSIVE page_film_data(_)
page_film_data(film_items) ==
  IF film_items = <<>> THEN <<>>
  ELSE LET film == Head(film_items)
           numeric_rating == IF film.raw_rating # <<>> THEN parse_rating(film.raw_rating) ELSE NoRating
       IN (IF numeric_rating # NoRating
           THEN <<[film_slug |-> film.film_slug, film_id |-> film.film_id, rating |-> numeric_rating]>>
           ELSE <<>>) \o page_film_data(Tail(film_items))

\* transport_ok is FALSE when the request ends in a status other than 200 or
\* in a network exception
scrape_user_ratings_page(u, p, transport_ok) ==
  IF ~transport_ok THEN None
  ELSE IF PageItems(u, p) = <<>> THEN None
  ELSE [none |-> FALSE, data |-> page_film_data(PageItems(u, p))]

\* "if page_result:" of the paginator
Truthy(page_result) == ~page_result.none /\ page_result.data # <<>>

\* Stage 2 of one batch of pages: results holds the page results in completion
\* order; gives the extended film_data and the count of empty pages
RECURSIVE ProcessReturnedResults(_, _, _)
ProcessReturnedResults(film_data0, empty_pages0, results) ==
  IF results = <<>> THEN [film_data |-> film_data0, empty_pages |-> empty_pages0]
  ELSE IF Truthy(Head(results))
       THEN ProcessReturnedResults(film_data0 \o Head(results).data, empty_pages0, Tail(results))
       ELSE ProcessReturnedResults(film_data0, empty_pages0 + 1, Tail(results))

\* mutant: the paginator stops at the first empty page of a batch
EndOfPaginationAtFirstEmptyPage(empty_pages) == empty_pages >= 1

\* mutant: the comparison is strict, which no batch of batch_size pages meets
EndOfPaginationPastBatchSize(empty_pages) == empty_pages > batch_size

\* mutant: the paginator stops one empty page short of a whole empty batch
EndOfPaginationOneShort(empty_pages) == empty_pages >= batch_size - 1

\* Stage 3
EndOfPagination(empty_pages) == empty_pages >= batch_size

\* ---------------------------------------------------------------- variables
VARIABLES
  \* the files under data_output
  user_mappings_file, film_mappings_file, raw_ratings_file, translated_ratings_file,
  \* the timestamped copies save_csv_versions wrote: <<prefix, timestamp>> |-> rows
  versioned_files,
  \* the process: which entry point runs and where it stands
  run_pc, processes_started, batches_left, exit_status, attempt,
  \* get_url_with_retries: the seconds of the latest sleep between two attempts
  sleep_time,
  \* run_full_batch_scraping_method / generate_user_data locals
  existing_users, user_id_mapping, run_max_user_id, current_users_ratings_df, film_id_to_title,
  \* fetch_all_user_data locals
  new_users, film_id_map, max_user_id, all_user_ratings_set, max_user_id_lock, processed,
  \* scrape_and_encode_user_ratings and paginator locals, one task per user
  pc, task_max_user_id, page_number, film_data, numeric_user_id, new_film_mappings, next_row,
  \* history: the page indices the paginator of each task has submitted, in order
  pages_requested,
  \* history: the identity table as fetch_all_user_data / generate_user_data received it
  mapping_at_entry,
  \* one film item under the page scraper: its rating span, whether the loop
  \* body has run for it, and what the body appended to page_film_data
  rating_span, item_scraped, item_film_data,
  \* the two thread pools: the state of each future of futures_dict, and the
  \* number of page requests each task's own executor is running
  user_futures, page_futures

disk == <<user_mappings_file, film_mappings_file, raw_ratings_file, translated_ratings_file, versioned_files>>

process == <<run_pc, processes_started, batches_left, exit_status, attempt, sleep_time>>

run_locals == <<existing_users, run_max_user_id, current_users_ratings_df, film_id_to_title>>

batch_locals == <<new_users, film_id_map, max_user_id, all_user_ratings_set, processed>>

task_locals == <<pc, task_max_user_id, page_number, pages_requested, film_data, numeric_user_id, new_film_mappings, next_row>>

item_locals == <<rating_span, item_scraped, item_film_data>>

program == <<disk, process, run_locals, user_id_mapping, batch_locals, max_user_id_lock, task_locals, mapping_at_entry>>

pool_locals == <<user_futures, page_futures>>

vars == <<program, item_locals, pool_locals>>

\* film.find("span", class_="rating") found nothing
NoSpan == [exists |-> FALSE, text |-> <<>>]

NoFile == [exists |-> FALSE, rows |-> <<>>]

File(rows) == [exists |-> TRUE, rows |-> rows]

\* float('nan'), which pandas gives for the max of an empty column
NaN == -2

Free == "free"

NoTasks == [u \in Users |-> "idle"]

ZeroTasks == [u \in Users |-> 0]

EmptyTasks == [u \in Users |-> <<>>]

NoMappings == [u \in Users |-> EmptyMap]

\* no process has run yet
NothingStarted ==
  /\ user_mappings_file = NoFile
  /\ film_mappings_file = NoFile
  /\ raw_ratings_file = NoFile
  /\ translated_ratings_file = NoFile
  /\ versioned_files = EmptyMap
  /\ run_pc = "idle"
  /\ processes_started = 0
  /\ batches_left = 0
  /\ exit_status = "none"
  /\ attempt = 0
  /\ sleep_time = 0
  /\ existing_users = {}
  /\ user_id_mapping = EmptyMap
  /\ run_max_user_id = 0
  /\ current_users_ratings_df = <<>>
  /\ film_id_to_title = EmptyMap
  /\ new_users = {}
  /\ film_id_map = EmptyMap
  /\ max_user_id = 0
  /\ all_user_ratings_set = <<>>
  /\ max_user_id_lock = Free
  /\ processed = {}
  /\ pc = NoTasks
  /\ task_max_user_id = ZeroTasks
  /\ page_number = ZeroTasks
  /\ pages_requested = EmptyTasks
  /\ film_data = EmptyTasks
  /\ numeric_user_id = ZeroTasks
  /\ new_film_mappings = NoMappings
  /\ next_row = ZeroTasks
  /\ mapping_at_entry = EmptyMap

\* no task has been submitted to the pool of fetch_all_user_data
NothingSubmitted ==
  /\ user_futures = [t \in 1..MaxPoolTasks |-> "none"]
  /\ page_futures = [t \in 1..MaxPoolTasks |-> 0]

Init ==
  /\ NothingStarted
  /\ rating_span = NoSpan
  /\ item_scraped = FALSE
  /\ item_film_data = <<>>
  /\ NothingSubmitted

\* ------------------------------------------- load_save_and_translate_data.py
\* rows of the user mappings file are [username, numeric_user_id]
HasDuplicates(values) == \E i, j \in 1..Len(values) : i # j /\ values[i] = values[j]

Column(rows, name) == [i \in 1..Len(rows) |-> rows[i][name]]

ZipDict(keys, values) == [k \in SeqRange(keys) |-> values[CHOOSE i \in 1..Len(keys) : keys[i] = k /\ \A j \in 1..Len(keys) : keys[j] = k => j <= i]]

SeriesMax(values) == IF values = <<>> THEN NaN ELSE MaxOf(SeqRange(values), 0)

NothingLoaded == [existing_users |-> {}, user_id_mapping |-> EmptyMap, max_user_id |-> 0]

load_existing_users(file) ==
  IF ~file.exists THEN NothingLoaded
  ELSE IF HasDuplicates(Column(file.rows, "numeric_user_id")) THEN NothingLoaded
  ELSE IF HasDuplicates(Column(file.rows, "username")) THEN NothingLoaded
  ELSE LET mapping == ZipDict(Column(file.rows, "username"), Column(file.rows, "numeric_user_id"))
       IN [existing_users |-> DOMAIN mapping,
           user_id_mapping |-> mapping,
           max_user_id |-> SeriesMax(Column(file.rows, "numeric_user_id"))]

\* str(x) of a film id
AsStr(film_id) == <<"str", film_id[2]>>

\* the type pandas infers for a csv column of digits
AsReadFromCsv(film_id) == <<"int", film_id[2]>>

\* rows of the film mappings file are [film_id, film_title]
load_existing_film_mappings(file) ==
  IF ~file.exists THEN EmptyMap
  ELSE ZipDict([i \in 1..Len(file.rows) |-> AsStr(AsReadFromCsv(file.rows[i].film_id))],
               Column(file.rows, "film_title"))

\* pd.read_csv(RAW_RATINGS_PATH), or the empty frame when the file is absent
read_raw_ratings(file) ==
  IF ~file.exists THEN <<>>
  ELSE [i \in 1..Len(file.rows) |->
          [user_id |-> file.rows[i].user_id,
           film_id |-> AsReadFromCsv(file.rows[i].film_id),
           rating |-> file.rows[i].rating]]

\* df.to_csv: every value is written as text, so 1 and "1" give the same cell
to_csv(df) == [i \in 1..Len(df) |-> [user_id |-> df[i].user_id, film_id |-> AsStr(df[i].film_id), rating |-> df[i].rating]]

\* mutant: no row is dropped
drop_duplicates_keeping_all(df) == df

\* df.drop_duplicates(subset=["user_id", "film_id"]), pandas default keep="first"
RECURSIVE drop_duplicates(_)
drop_duplicates(df) ==
  IF df = <<>> THEN <<>>
  ELSE LET front == drop_duplicates(SubSeq(df, 1, Len(df) - 1))
           last == df[Len(df)]
       IN IF \E i \in 1..Len(front) : front[i].user_id = last.user_id /\ front[i].film_id = last.film_id
          THEN front
          ELSE Append(front, last)

\* translate_ratings_dataframe raises ValueError when an id has no mapping
Untranslatable(df, user_mapping, film_mapping) ==
  LET user_id_to_name == {user_mapping[k] : k \in DOMAIN user_mapping}
      film_ids == {AsStr(k) : k \in DOMAIN film_mapping}
  IN \/ \E i \in 1..Len(df) : df[i].user_id \notin user_id_to_name
     \/ \E i \in 1..Len(df) : AsStr(df[i].film_id) \notin film_ids

\* translate_ratings_dataframe for a frame it does not raise on
translate_ratings_dataframe(df, user_mapping, film_mapping) ==
  [i \in 1..Len(df) |->
     [username |-> CHOOSE k \in DOMAIN user_mapping : user_mapping[k] = df[i].user_id,
      film_title |-> film_mapping[CHOOSE k \in DOMAIN film_mapping : AsStr(k) = AsStr(df[i].film_id)],
      rating |-> df[i].rating]]

\* config.py
VERSIONING_TOGGLE == TRUE
RAW_RATINGS_PREFIX == "raw_ratings"
TRANSLATED_RATINGS_PREFIX == "translated_ratings"
USER_MAPPINGS_PREFIX == "user_mappings"
FILM_MAPPINGS_PREFIX == "film_mappings"

\* datetime.now().strftime("%Y%m%d-%H%M%S"): the wall clock read to the
\* second. Timestamps count seconds in which a save happened: the clock
\* still reads the second of the latest timestamped copy, or a later one.
Timestamps ==
  LET latest == MaxOf({name[2] : name \in DOMAIN versioned_files}, 0)
  IN {timestamp \in {latest, latest + 1} : timestamp > 0}

\* save_csv_versions: the latest file it writes, and the timestamped copies
\* in the directory after it
save_csv_versions(files, df, prefix, timestamp, versioned) ==
  [latest |-> File(df),
   versioned_files |-> IF versioned THEN DictSet(files, <<prefix, timestamp>>, df) ELSE files]

\* the rows save_final_data writes for the two mapping tables, in dict order
\* (the order of the rows decides nothing, so one order stands for all)
RECURSIVE SetToSeq(_)
SetToSeq(S) == IF S = {} THEN <<>> ELSE LET x == CHOOSE y \in S : TRUE IN <<x>> \o SetToSeq(S \ {x})

film_mappings_df(film_mapping) ==
  LET keys == SetToSeq(DOMAIN film_mapping)
  IN [i \in 1..Len(keys) |-> [film_id |-> AsStr(keys[i]), film_title |-> film_mapping[keys[i]]]]

user_mappings_df(user_mapping) ==
  LET keys == SetToSeq(DOMAIN user_mapping)
  IN [i \in 1..Len(keys) |-> [username |-> keys[i], numeric_user_id |-> user_mapping[keys[i]]]]

\* ------------------------------------------------------------ read_in_data.py
executor_max_workers == 5

\* Python's max(a, b): b only when b > a, and no comparison with nan is true
PyMax(a, b) == IF a # NaN /\ b # NaN /\ b > a THEN b ELSE a

\* mutant: the "+ 1" is forgotten
NextUserIdWithoutIncrement(user_id_map) == MaxOf(Range(user_id_map), 0)

\* max(user_id_map.values(), default=0) + 1
NextUserId(user_id_map) == MaxOf(Range(user_id_map), 0) + 1

\* mutant: the membership test is left out and every call assigns a fresh id
UserNeverHasId(user_id_map, user_string) == TRUE

\* line 41: "if user_string not in user_id_map"
UserHasNoId(user_id_map, user_string) == user_string \notin DOMAIN user_id_map

\* the value the block under max_user_id_lock gives the task's max_user_id:
\* line 42 for a user without an id, line 45 otherwise
MaxUserIdUnderLock(user_id_map, user_string) ==
  IF UserHasNoId(user_id_map, user_string)
  THEN NextUserId(user_id_map)
  ELSE MaxOf(Range(user_id_map), 0)

\* df[["film_id", "film_slug"]].drop_duplicates(): the distinct pairs in order of first appearance
RECURSIVE FilmRows(_)
FilmRows(df) ==
  IF df = <<>> THEN <<>>
  ELSE LET front == FilmRows(SubSeq(df, 1, Len(df) - 1))
           last == [film_id |-> df[Len(df)].film_id, film_slug |-> df[Len(df)].film_slug]
       IN IF last \in SeqRange(front) THEN front ELSE Append(front, last)

\* mutant: a known film id seen under another slug is staged again, not rejected
FilmRowStepOverwrites(shared_film_id_map, staged, row) ==
  [raises |-> FALSE,
   staged |-> IF row.film_id \in DOMAIN shared_film_id_map /\ shared_film_id_map[row.film_id] = row.film_slug
              THEN staged
              ELSE DictSet(staged, row.film_id, row.film_slug)]

\* one pass of the film loop: does it raise, and what is staged after it
FilmRowStep(shared_film_id_map, staged, row) ==
  IF row.film_id \in DOMAIN shared_film_id_map
  THEN [raises |-> shared_film_id_map[row.film_id] # row.film_slug, staged |-> staged]
  ELSE [raises |-> FALSE, staged |-> DictSet(staged, row.film_id, row.film_slug)]

\* df_encoded_values: the ratings with the numeric user id in front
df_encoded_values(df, user_id) ==
  [i \in 1..Len(df) |-> [user_id |-> user_id, film_id |-> df[i].film_id, rating |-> df[i].rating]]

Running(u) == pc[u] \in {"fetching", "waiting", "locked", "assign", "films"}

\* mutant: a future is taken as completed as soon as its task has started
DoneOrStarted(u) == pc[u] \notin {"idle", "pending"}

\* "skipped": the task returned (None, {}, user_id_map, max_user_id) at line 37
Done(u) == pc[u] \in {"returned", "skipped", "raised"}

\* -------------------------------------------------- the tasks (worker threads)
\* line 29, and the paginator's set-up
StartTask(u) ==
  /\ pc[u] = "pending"
  /\ Cardinality({v \in Users : Running(v)}) < executor_max_workers
  /\ pc' = [pc EXCEPT ![u] = "fetching"]
  /\ task_max_user_id' = [task_max_user_id EXCEPT ![u] = MaxOf(Range(user_id_mapping), 0)]
  /\ page_number' = [page_number EXCEPT ![u] = 1]
  /\ pages_requested' = [pages_requested EXCEPT ![u] = <<>>]
  /\ film_data' = [film_data EXCEPT ![u] = <<>>]
  /\ UNCHANGED <<disk, process, run_locals, user_id_mapping, batch_locals, max_user_id_lock,
                 numeric_user_id, new_film_mappings, next_row, mapping_at_entry>>
  /\ UNCHANGED <<item_locals, pool_locals>>

\* the pages of the batch that starts at page_number which the site has items for
ContentPages(u, first) == {p \in first..(first + batch_size - 1) : PageItems(u, p) # <<>>}

\* The results of one batch of pages in completion order. The pages the site
\* has no items for return None whatever their transport does, and where a
\* None stands in the order changes neither film_data nor the count, so these
\* are put last.
BatchResults(u, first, order, transport_ok) ==
  [i \in 1..batch_size |->
     IF i <= Len(order) THEN scrape_user_ratings_page(u, order[i], order[i] \in transport_ok)
     ELSE None]

\* Stage 1: the batch_size pages submitted from page number first on
SubmittedPages(first) == [i \in 1..batch_size |-> first + i - 1]

\* mutant: a user without ratings is not skipped
DfNeverEmpty(df) == FALSE

\* line 35: "if df.empty"
DfEmpty(df) == df = <<>>

\* one turn of the paginator's while loop: submit batch_size pages, process
\* them as they complete, check for the end of pagination; then lines 35-37
FetchPageBatch(u) ==
  /\ pc[u] = "fetching"
  /\ \E transport_ok \in SUBSET ContentPages(u, page_number[u]) :
     \E order \in Orderings(ContentPages(u, page_number[u])) :
       LET r == ProcessReturnedResults(film_data[u], 0, BatchResults(u, page_number[u], order, transport_ok))
       IN /\ film_data' = [film_data EXCEPT ![u] = r.film_data]
          /\ page_number' = [page_number EXCEPT ![u] = page_number[u] + batch_size]
          /\ pages_requested' = [pages_requested EXCEPT ![u] = pages_requested[u] \o SubmittedPages(page_number[u])]
          /\ pc' = [pc EXCEPT ![u] =
                      IF ~EndOfPagination(r.empty_pages) THEN "fetching"
                      ELSE IF DfEmpty(r.film_data) THEN "skipped"
                      ELSE "waiting"]
  /\ UNCHANGED <<disk, process, run_locals, user_id_mapping, batch_locals, max_user_id_lock,
                 task_max_user_id, numeric_user_id, new_film_mappings, next_row, mapping_at_entry>>
  /\ UNCHANGED <<item_locals, pool_locals>>

\* a batch of pages is submitted and an exception out of the page scraper
\* reaches the task through future.result()
PageScraperRaises(u) ==
  /\ pc[u] = "fetching"
  /\ pc' = [pc EXCEPT ![u] = "raised"]
  /\ page_number' = [page_number EXCEPT ![u] = page_number[u] + batch_size]
  /\ pages_requested' = [pages_requested EXCEPT ![u] = pages_requested[u] \o SubmittedPages(page_number[u])]
  /\ UNCHANGED <<disk, process, run_locals, user_id_mapping, batch_locals, max_user_id_lock,
                 task_max_user_id, film_data, numeric_user_id, new_film_mappings,
                 next_row, mapping_at_entry>>
  /\ UNCHANGED <<item_locals, pool_locals>>

\* mutant: the block is entered without taking the lock
LockIgnored == TRUE

\* "with max_user_id_lock:" lets a thread in when no thread holds the lock
LockAvailable == max_user_id_lock = Free

AcquireLock(u) ==
  /\ pc[u] = "waiting"
  /\ LockAvailable
  /\ max_user_id_lock' = u
  /\ pc' = [pc EXCEPT ![u] = "locked"]
  /\ UNCHANGED <<disk, process, run_locals, user_id_mapping, batch_locals,
                 task_max_user_id, page_number, pages_requested, film_data, numeric_user_id, new_film_mappings,
                 next_row, mapping_at_entry>>
  /\ UNCHANGED <<item_locals, pool_locals>>

\* lines 49-56 after the lock is released: the read of the assigned id and
\* the empty new_film_mappings
AfterLockedBlock(u, user_id_map) ==
  /\ max_user_id_lock' = Free
  /\ numeric_user_id' = [numeric_user_id EXCEPT ![u] = user_id_map[u]]
  /\ new_film_mappings' = [new_film_mappings EXCEPT ![u] = EmptyMap]
  /\ next_row' = [next_row EXCEPT ![u] = 1]
  /\ pc' = [pc EXCEPT ![u] = IF FilmRows(film_data[u]) = <<>> THEN "returned" ELSE "films"]

\* lines 41-42, or lines 44-45 and the release when the user has an id
ReadMaxUserId(u) ==
  /\ pc[u] = "locked"
  /\ task_max_user_id' = [task_max_user_id EXCEPT ![u] = MaxUserIdUnderLock(user_id_mapping, u)]
  /\ IF UserHasNoId(user_id_mapping, u)
     THEN /\ pc' = [pc EXCEPT ![u] = "assign"]
          /\ UNCHANGED <<max_user_id_lock, numeric_user_id, new_film_mappings, next_row>>
     ELSE AfterLockedBlock(u, user_id_mapping)
  /\ UNCHANGED <<disk, process, run_locals, user_id_mapping, batch_locals, page_number, pages_requested, film_data,
                 mapping_at_entry>>
  /\ UNCHANGED <<item_locals, pool_locals>>

\* line 43 and the release
AssignUserId(u) ==
  /\ pc[u] = "assign"
  /\ user_id_mapping' = DictSet(user_id_mapping, u, task_max_user_id[u])
  /\ AfterLockedBlock(u, user_id_mapping')
  /\ UNCHANGED <<disk, process, run_locals, batch_locals, task_max_user_id, page_number, pages_requested, film_data,
                 mapping_at_entry>>
  /\ UNCHANGED <<item_locals, pool_locals>>

\* one pass of the loop of lines 57-64, and the return after the last pass
CheckFilmRow(u) ==
  /\ pc[u] = "films"
  /\ LET rows == FilmRows(film_data[u])
         step == FilmRowStep(film_id_map, new_film_mappings[u], rows[next_row[u]])
     IN /\ new_film_mappings' = [new_film_mappings EXCEPT ![u] = step.staged]
        /\ next_row' = [next_row EXCEPT ![u] = next_row[u] + 1]
        /\ pc' = [pc EXCEPT ![u] =
                    IF step.raises THEN "raised"
                    ELSE IF next_row[u] = Len(rows) THEN "returned"
                    ELSE "films"]
  /\ UNCHANGED <<disk, process, run_locals, user_id_mapping, batch_locals, max_user_id_lock,
                 task_max_user_id, page_number, pages_requested, film_data, numeric_user_id, mapping_at_entry>>
  /\ UNCHANGED <<item_locals, pool_locals>>

Task(u) ==
  \/ StartTask(u)
  \/ FetchPageBatch(u)
  \/ PageScraperRaises(u)
  \/ AcquireLock(u)
  \/ ReadMaxUserId(u)
  \/ AssignUserId(u)
  \/ CheckFilmRow(u)

\* what a process leaves behind when it ends: its memory is gone
ProcessEnds(status) ==
  /\ run_pc' = "idle"
  /\ exit_status' = status
  /\ batches_left' = 0
  /\ attempt' = 0
  /\ sleep_time' = 0
  /\ existing_users' = {}
  /\ user_id_mapping' = EmptyMap
  /\ run_max_user_id' = 0
  /\ current_users_ratings_df' = <<>>
  /\ film_id_to_title' = EmptyMap
  /\ mapping_at_entry' = EmptyMap

\* the locals of fetch_all_user_data and of its tasks after the function returned
BatchLocalsGone ==
  /\ new_users' = {}
  /\ film_id_map' = EmptyMap
  /\ max_user_id' = 0
  /\ all_user_ratings_set' = <<>>
  /\ max_user_id_lock' = Free
  /\ processed' = {}
  /\ pc' = NoTasks
  /\ task_max_user_id' = ZeroTasks
  /\ page_number' = ZeroTasks
  /\ pages_requested' = EmptyTasks
  /\ film_data' = EmptyTasks
  /\ numeric_user_id' = ZeroTasks
  /\ new_film_mappings' = NoMappings
  /\ next_row' = ZeroTasks

\* --------------------------------------------------- compile_training_data.py
\* run_full_batch_scraping_method, stages 1 and 2
StartRun(mode, num_batches) ==
  /\ run_pc = "idle"
  /\ processes_started < MaxProcesses
  /\ processes_started' = processes_started + 1
  /\ run_pc' = "select"
  /\ exit_status' = "none"
  /\ batches_left' = num_batches
  /\ LET loaded == load_existing_users(user_mappings_file)
     IN IF mode = "new"
        THEN /\ user_id_mapping' = EmptyMap
             /\ existing_users' = {}
             /\ run_max_user_id' = 0
             /\ current_users_ratings_df' = <<>>
             /\ film_id_to_title' = EmptyMap
        ELSE /\ user_id_mapping' = loaded.user_id_mapping
             /\ existing_users' = loaded.existing_users
             /\ run_max_user_id' = loaded.max_user_id
             /\ current_users_ratings_df' = read_raw_ratings(raw_ratings_file)
             /\ film_id_to_title' = load_existing_film_mappings(film_mappings_file)
  /\ UNCHANGED <<disk, attempt, sleep_time, batch_locals, max_user_id_lock, task_locals, mapping_at_entry>>
  /\ UNCHANGED <<item_locals, pool_locals>>

\* mutant: when every attempt has failed the call returns None to its caller
get_url_with_retries_returning_none(failed_attempts) ==
  IF failed_attempts < max_retries THEN "response" ELSE "None"

\* mutant: the loop runs once more than max_retries allows
get_url_with_retries_once_more(failed_attempts) ==
  IF failed_attempts <= max_retries THEN "response" ELSE "exit"

\* get_url_with_retries after failed_attempts requests that did not end in a
\* 200: the next request gives the response while the loop has attempts
\* left, and after the loop the call ends in exit(1)
get_url_with_retries(failed_attempts) ==
  IF failed_attempts < max_retries THEN "response" ELSE "exit"

\* line 43: random.uniform(0, base_delay * (2 ** attempt)), in whole seconds
SleepTimes(failed_attempt) == 0..(base_delay * 2^failed_attempt)

\* the process is in fetch_new_popular_users, inside get_url_with_retries
FetchingUserList == run_pc = "select" /\ batches_left > 0

\* lines 31-45: a request ends in another status than 200 or in a
\* RequestException, and the loop sleeps and goes on
RequestFails ==
  /\ FetchingUserList
  /\ attempt < max_retries
  /\ attempt' = attempt + 1
  /\ \E seconds \in SleepTimes(attempt) : sleep_time' = seconds
  /\ UNCHANGED <<disk, run_pc, processes_started, batches_left, exit_status, run_locals,
                 user_id_mapping, batch_locals, max_user_id_lock, task_locals, mapping_at_entry>>
  /\ UNCHANGED <<item_locals, pool_locals>>

\* lines 47-49: the loop is over without a response. exit(1) raises
\* SystemExit in the main thread, which nothing catches. (A None handed back
\* would make fetch_new_popular_users break at line 74 and the run stop at
\* line 163.)
RetriesExhausted ==
  /\ FetchingUserList
  /\ attempt = max_retries
  /\ ProcessEnds(IF get_url_with_retries(attempt) = "exit" THEN "aborted" ELSE "ok")
  /\ UNCHANGED <<disk, processes_started, batch_locals, max_user_id_lock, task_locals>>
  /\ UNCHANGED <<item_locals, pool_locals>>

\* Stage 3 up to the submit loop of fetch_all_user_data: fetch_new_popular_users
\* returns users, each not in existing_users and added to it, and every one of
\* them is submitted as a task
StartBatch(users) ==
  /\ FetchingUserList
  /\ get_url_with_retries(attempt) = "response"
  /\ attempt' = 0
  /\ sleep_time' = 0
  /\ users # {}
  /\ users \subseteq Users \ existing_users
  /\ Cardinality(users) <= NumberOfNewUsers
  /\ existing_users' = existing_users \cup users
  /\ batches_left' = batches_left - 1
  /\ run_pc' = "batch"
  /\ new_users' = users
  /\ film_id_map' = EmptyMap
  /\ all_user_ratings_set' = <<>>
  /\ max_user_id' = run_max_user_id
  /\ max_user_id_lock' = Free
  /\ processed' = {}
  /\ pc' = [u \in Users |-> IF u \in users THEN "pending" ELSE "idle"]
  /\ mapping_at_entry' = user_id_mapping
  /\ UNCHANGED <<disk, processes_started, exit_status, user_id_mapping, run_max_user_id,
                 current_users_ratings_df, film_id_to_title, task_max_user_id, page_number, pages_requested,
                 film_data, numeric_user_id, new_film_mappings, next_row>>
  /\ UNCHANGED <<item_locals, pool_locals>>

\* "No more new users found. Stopping early."
NoNewUsers ==
  /\ FetchingUserList
  /\ get_url_with_retries(attempt) = "response"
  /\ ProcessEnds("ok")
  /\ UNCHANGED <<disk, processes_started, batch_locals, max_user_id_lock, task_locals>>
  /\ UNCHANGED <<item_locals, pool_locals>>

\* the loop over range(num_batches) is exhausted
RunReturns ==
  /\ run_pc = "select"
  /\ batches_left = 0
  /\ ProcessEnds("ok")
  /\ UNCHANGED <<disk, processes_started, batch_locals, max_user_id_lock, task_locals>>
  /\ UNCHANGED <<item_locals, pool_locals>>

\* ------------------------------------- read_in_data.py, the as_completed loop
ProcessCompleted(u) ==
  /\ run_pc = "batch"
  /\ u \in new_users \ processed
  /\ Done(u)
  /\ processed' = processed \cup {u}
  /\ IF pc[u] = "returned"
     THEN /\ all_user_ratings_set' = Append(all_user_ratings_set, df_encoded_values(film_data[u], numeric_user_id[u]))
          /\ film_id_map' = DictUpdate(film_id_map, new_film_mappings[u])
          /\ user_id_mapping' = DictUpdate(user_id_mapping, user_id_mapping)
          /\ max_user_id' = PyMax(max_user_id, task_max_user_id[u])
     ELSE UNCHANGED <<all_user_ratings_set, film_id_map, user_id_mapping, max_user_id>>
  /\ UNCHANGED <<disk, process, run_locals, new_users, max_user_id_lock, task_locals, mapping_at_entry>>
  /\ UNCHANGED <<item_locals, pool_locals>>

\* every future has been handled
BatchComplete == run_pc = "batch" /\ processed = new_users

\* what fetch_all_user_data returns as combined_user_ratings_df
combined_user_ratings_df == Flatten(all_user_ratings_set)

\* fetch_all_user_data returns; stages 4 and 5 of the run, save_final_data included
FinishBatch ==
  /\ BatchComplete
  /\ \E timestamp \in Timestamps :
       LET batch_ratings == combined_user_ratings_df
           films == DictUpdate(film_id_to_title, film_id_map)
           concat == IF batch_ratings # <<>> THEN current_users_ratings_df \o batch_ratings
                     ELSE current_users_ratings_df
           deduped == drop_duplicates(concat)
           raw == save_csv_versions(versioned_files, to_csv(deduped), RAW_RATINGS_PREFIX,
                                    timestamp, VERSIONING_TOGGLE)
           translated == save_csv_versions(raw.versioned_files,
                                           translate_ratings_dataframe(deduped, user_id_mapping, films),
                                           TRANSLATED_RATINGS_PREFIX, timestamp, FALSE)
           film_mappings == save_csv_versions(translated.versioned_files, film_mappings_df(films),
                                              FILM_MAPPINGS_PREFIX, timestamp, FALSE)
           user_mappings == save_csv_versions(film_mappings.versioned_files, user_mappings_df(user_id_mapping),
                                              USER_MAPPINGS_PREFIX, timestamp, FALSE)
       IN /\ raw_ratings_file' = raw.latest
          /\ IF Untranslatable(deduped, user_id_mapping, films)
             THEN /\ versioned_files' = raw.versioned_files
                  /\ ProcessEnds("error")
                  /\ UNCHANGED <<translated_ratings_file, user_mappings_file, film_mappings_file>>
             ELSE /\ translated_ratings_file' = translated.latest
                  /\ film_mappings_file' = film_mappings.latest
                  /\ user_mappings_file' = user_mappings.latest
                  /\ versioned_files' = user_mappings.versioned_files
                  /\ run_max_user_id' = max_user_id
                  /\ film_id_to_title' = films
                  /\ current_users_ratings_df' = deduped
                  /\ run_pc' = "select"
                  /\ UNCHANGED <<batches_left, exit_status, attempt, sleep_time, existing_users, user_id_mapping, mapping_at_entry>>
  /\ BatchLocalsGone
  /\ UNCHANGED processes_started
  /\ UNCHANGED <<item_locals, pool_locals>>

\* -------------------------------------------------------- generate_user_data.py
\* the loads, and the call of scrape_and_encode_user_ratings with the loaded
\* film mapping as the shared film_id_map
StartGenerate(username) ==
  /\ run_pc = "idle"
  /\ processes_started < MaxProcesses
  /\ processes_started' = processes_started + 1
  /\ run_pc' = "single"
  /\ exit_status' = "none"
  /\ LET loaded == load_existing_users(user_mappings_file)
     IN /\ user_id_mapping' = loaded.user_id_mapping
        /\ existing_users' = loaded.existing_users
        /\ run_max_user_id' = loaded.max_user_id
        /\ mapping_at_entry' = loaded.user_id_mapping
  /\ film_id_map' = load_existing_film_mappings(film_mappings_file)
  /\ new_users' = {username}
  /\ pc' = [u \in Users |-> IF u = username THEN "pending" ELSE "idle"]
  /\ UNCHANGED <<disk, batches_left, attempt, sleep_time, current_users_ratings_df, film_id_to_title, max_user_id,
                 all_user_ratings_set, max_user_id_lock, processed, task_max_user_id, page_number, pages_requested,
                 film_data, numeric_user_id, new_film_mappings, next_row>>
  /\ UNCHANGED <<item_locals, pool_locals>>

\* the call returned or raised: the rest of generate_user_data
FinishGenerate(username) ==
  /\ run_pc = "single"
  /\ username \in new_users
  /\ Done(username)
  /\ IF pc[username] = "returned" /\ film_data[username] # <<>>
     THEN /\ film_mappings_file' = File(film_mappings_df(DictUpdate(film_id_map, new_film_mappings[username])))
          /\ user_mappings_file' = File(user_mappings_df(user_id_mapping))
          /\ UNCHANGED <<raw_ratings_file, translated_ratings_file, versioned_files>>
          /\ ProcessEnds("ok")
     ELSE /\ UNCHANGED disk
          /\ ProcessEnds(IF pc[username] = "raised" THEN "error" ELSE "ok")
  /\ BatchLocalsGone
  /\ UNCHANGED processes_started
  /\ UNCHANGED <<item_locals, pool_locals>>

\* the steps of a process that has started
ProcessStep ==
  \/ \E users \in SUBSET Users : StartBatch(users)
  \/ RequestFails
  \/ RetriesExhausted
  \/ NoNewUsers
  \/ RunReturns
  \/ \E u \in Users : Task(u)
  \/ \E u \in Users : ProcessCompleted(u)
  \/ FinishBatch
  \/ \E u \in Users : FinishGenerate(u)

Next ==
  \/ \E mode \in {"new", "continue"}, num_batches \in 1..MaxBatches : StartRun(mode, num_batches)
  \/ \E u \in Users : StartGenerate(u)
  \/ ProcessStep

Spec == Init /\ [][Next]_vars

\* The first process on an empty disk, with fair scheduling: the worker
\* threads of the pool and the orchestrator's as_completed loop are scheduled
\* by the operating system, and none of them is held back for ever while it
\* can take a step.
FirstProcessNext ==
  \/ \E mode \in {"new", "continue"}, num_batches \in 1..MaxBatches :
       processes_started = 0 /\ StartRun(mode, num_batches)
  \/ \E u \in Users : processes_started = 0 /\ StartGenerate(u)
  \/ ProcessStep

FairSpec ==
  /\ Init
  /\ [][FirstProcessNext]_vars
  /\ \A u \in Users : WF_vars(Task(u)) /\ WF_vars(ProcessCompleted(u))

\* ------------------------------------------------ the files between two runs
\* Between two processes the user mappings file is removed from data_output
\* (or left in a state pd.read_csv cannot read): load_existing_users then
\* takes the branch of lines 28-30 (or 64-66) and returns empty values,
\* while the other files are as the last save left them.
UserMappingsFileRemoved ==
  /\ run_pc = "idle"
  /\ processes_started \in 1..(MaxProcesses - 1)
  /\ user_mappings_file.exists
  /\ user_mappings_file' = NoFile
  /\ UNCHANGED <<film_mappings_file, raw_ratings_file, translated_ratings_file, versioned_files>>
  /\ UNCHANGED <<process, run_locals, user_id_mapping, batch_locals, max_user_id_lock, task_locals,
                 mapping_at_entry>>
  /\ UNCHANGED <<item_locals, pool_locals>>

ResumeNext ==
  \/ \E mode \in {"new", "continue"}, num_batches \in 1..MaxBatches : StartRun(mode, num_batches)
  \/ \E u \in Users : StartGenerate(u)
  \/ ProcessStep
  \/ UserMappingsFileRemoved

ResumeSpec == Init /\ [][ResumeNext]_vars

\* ------------------------------------------- fetch_ratings.py, one film item
MaxRatingLength == 5

\* the characters of a rating span's text: the two glyphs, white space, and
\* any other character
Space == "space"
Other == "other"
Glyphs == {Star, Half, Space, Other}

RatingSpans == {NoSpan} \cup {[exists |-> TRUE, text |-> t] : t \in UNION {[1..n -> Glyphs] : n \in 0..MaxRatingLength}}

\* str.strip()
RECURSIVE Strip(_)
Strip(text) ==
  IF text = <<>> THEN <<>>
  ELSE IF Head(text) = Space THEN Strip(Tail(text))
  ELSE IF text[Len(text)] = Space THEN Strip(SubSeq(text, 1, Len(text) - 1))
  ELSE text

\* line 88: "rating_span.text.strip() if rating_span else None"; None and
\* the empty text are both falsy and both <<>> here
raw_rating_of(span) == IF span.exists THEN Strip(span.text) ELSE <<>>

ScraperInit ==
  /\ NothingStarted
  /\ rating_span \in RatingSpans
  /\ item_scraped = FALSE
  /\ item_film_data = <<>>
  /\ NothingSubmitted

\* lines 75-97 for one film item with a film-poster div
ScrapeFilmItem ==
  /\ ~item_scraped
  /\ item_scraped' = TRUE
  /\ item_film_data' = page_film_data(<<Item("s1", 1, raw_rating_of(rating_span))>>)
  /\ UNCHANGED <<program, rating_span, pool_locals>>

ScraperNext == ScrapeFilmItem

ScraperSpec == ScraperInit /\ [][ScraperNext]_vars

\* --------------------------------------------------- the two thread pools
\* read_in_data.py lines 97-107 and fetch_ratings.py lines 130-149, for a
\* batch of up to MaxPoolTasks users: every task is one call of
\* scrape_and_encode_user_ratings, of which only the page requests of its
\* paginator are kept here
Min(a, b) == IF a < b THEN a ELSE b

Executing(t) == user_futures[t] = "running"

\* lines 101-107: one future per user, in the order of the list
SubmitUserTasks(number_of_users) ==
  /\ \A t \in 1..MaxPoolTasks : user_futures[t] = "none"
  /\ user_futures' = [t \in 1..MaxPoolTasks |-> IF t <= number_of_users THEN "queued" ELSE "none"]
  /\ UNCHANGED <<program, item_locals, page_futures>>

\* Stage 1 of the paginator: of the batch_size page requests submitted to
\* the task's ThreadPoolExecutor(max_workers=max_workers) as many run at once
\* as it has workers
PageRequestsStarted == Min(batch_size, max_workers)

\* mutant: a queued task starts whatever the number of tasks that execute
WorkerIdleAlways == TRUE

\* ThreadPoolExecutor(max_workers=5): a worker thread is there for a queued
\* task while fewer than max_workers tasks execute
WorkerIdle == Cardinality({t \in 1..MaxPoolTasks : Executing(t)}) < executor_max_workers

\* a worker takes the task that has waited longest in the queue; the task
\* runs up to Stage 1 of its paginator
WorkerStartsTask(t) ==
  /\ user_futures[t] = "queued"
  /\ \A earlier \in 1..(t - 1) : user_futures[earlier] # "queued"
  /\ WorkerIdle
  /\ user_futures' = [user_futures EXCEPT ![t] = "running"]
  /\ page_futures' = [page_futures EXCEPT ![t] = PageRequestsStarted]
  /\ UNCHANGED <<program, item_locals>>

\* Stage 2: one of the task's page requests completes
PageRequestCompletes(t) ==
  /\ Executing(t)
  /\ page_futures[t] > 0
  /\ page_futures' = [page_futures EXCEPT ![t] = page_futures[t] - 1]
  /\ UNCHANGED <<program, item_locals, user_futures>>

\* Stage 3 found pages with films: the while loop turns, Stage 1 again
NextPageBatch(t) ==
  /\ Executing(t)
  /\ page_futures[t] = 0
  /\ page_futures' = [page_futures EXCEPT ![t] = PageRequestsStarted]
  /\ UNCHANGED <<program, item_locals, user_futures>>

\* Stage 3 breaks, and the task runs to its return or its raise
UserTaskEnds(t) ==
  /\ Executing(t)
  /\ page_futures[t] = 0
  /\ user_futures' = [user_futures EXCEPT ![t] = "done"]
  /\ UNCHANGED <<program, item_locals, page_futures>>

\* the with block of line 97 is left when every future is done
PoolShutsDown ==
  /\ \E t \in 1..MaxPoolTasks : user_futures[t] # "none"
  /\ \A t \in 1..MaxPoolTasks : user_futures[t] \in {"none", "done"}
  /\ user_futures' = [t \in 1..MaxPoolTasks |-> "none"]
  /\ UNCHANGED <<program, item_locals, page_futures>>

PoolInit ==
  /\ NothingStarted
  /\ rating_span = NoSpan
  /\ item_scraped = FALSE
  /\ item_film_data = <<>>
  /\ NothingSubmitted

PoolNext ==
  \/ \E number_of_users \in 1..MaxPoolTasks : SubmitUserTasks(number_of_users)
  \/ \E t \in 1..MaxPoolTasks : WorkerStartsTask(t)
  \/ \E t \in 1..MaxPoolTasks : PageRequestCompletes(t)
  \/ \E t \in 1..MaxPoolTasks : NextPageBatch(t)
  \/ \E t \in 1..MaxPoolTasks : UserTaskEnds(t)
  \/ PoolShutsDown

PoolSpec == PoolInit /\ [][PoolNext]_vars

\* ===================================================================== claims
InProcess == run_pc \in {"batch", "single"}

\* the task of u has been through the locked block and holds an id
HoldsId(u) == pc[u] = "films" \/ (pc[u] \in {"returned", "raised"} /\ next_row[u] >= 1)

\* the keys that entered the identity table since fetch_all_user_data (or
\* generate_user_data) received it, and the largest id it held then
NewKeys == DOMAIN user_id_mapping \ DOMAIN mapping_at_entry

MaxAtEntry == MaxOf(Range(mapping_at_entry), 0)

\* C1: whatever the interleaving of the tasks of a batch, the N keys that were
\* not in the identity table when the batch began and have been allocated so
\* far hold N distinct ids, and these are exactly M+1 .. M+N for M the largest
\* id at the start; every task holds the id the table records for its key.
C1_ConcurrentAllocationsAreConsecutive ==
  InProcess =>
    /\ {user_id_mapping[k] : k \in NewKeys} = (MaxAtEntry + 1)..(MaxAtEntry + Cardinality(NewKeys))
    /\ \A u, v \in NewKeys : user_id_mapping[u] = user_id_mapping[v] => u = v
    /\ \A u \in Users : HoldsId(u) => u \in DOMAIN user_id_mapping /\ numeric_user_id[u] = user_id_mapping[u]

\* two unseen keys have been allocated while both tasks are still running
C1_Witness ==
  /\ run_pc = "batch"
  /\ Cardinality(NewKeys) = 2
  /\ \A u \in NewKeys : pc[u] = "films"

\* C2: when a task goes through the locked block for a key that has an id in
\* the identity table, it comes out holding that id and the table is
\* unchanged; and no step of a running process changes the id of a key.
C2_KnownKeyKeepsItsId ==
  [][/\ \A u \in Users :
          (pc[u] \in {"locked", "assign"} /\ pc'[u] \in {"films", "returned"} /\ u \in DOMAIN user_id_mapping)
            => (numeric_user_id'[u] = user_id_mapping[u] /\ user_id_mapping' = user_id_mapping)
     /\ (run_pc # "idle" /\ run_pc' # "idle")
          => \A k \in DOMAIN user_id_mapping : k \in DOMAIN user_id_mapping' /\ user_id_mapping'[k] = user_id_mapping[k]]_vars

\* a task went through the locked block for a key that an earlier process had
\* given an id, and holds the id that process wrote to the mappings file
C2_Witness ==
  \E u \in Users :
    /\ pc[u] = "films"
    /\ u \in DOMAIN mapping_at_entry
    /\ \E i \in 1..Len(user_mappings_file.rows) :
         /\ user_mappings_file.rows[i].username = u
         /\ user_mappings_file.rows[i].numeric_user_id = numeric_user_id[u]

\* C3: in every state of a run the identity table maps its keys to positive
\* integers, no two keys to the same one, and no step of the run changes or
\* removes the id of a key.
C3_IdentityTableIsBijection ==
  /\ [](/\ \A k \in DOMAIN user_id_mapping : user_id_mapping[k] \in Nat \ {0}
        /\ \A j, k \in DOMAIN user_id_mapping : user_id_mapping[j] = user_id_mapping[k] => j = k)
  /\ [][(run_pc # "idle" /\ run_pc' # "idle")
          => \A k \in DOMAIN user_id_mapping : k \in DOMAIN user_id_mapping' /\ user_id_mapping'[k] = user_id_mapping[k]]_vars

\* a resumed run loaded a table with one key and a task of a batch added a second
C3_Witness ==
  /\ run_pc = "batch"
  /\ mapping_at_entry # EmptyMap
  /\ user_mappings_file.exists
  /\ Cardinality(DOMAIN user_id_mapping) = 2

\* the row the film loop of u's task looks at next
CurrentRow(u) == FilmRows(film_data[u])[next_row[u]]

Collides(u) ==
  /\ pc[u] = "films"
  /\ CurrentRow(u).film_id \in DOMAIN film_id_map
  /\ film_id_map[CurrentRow(u).film_id] # CurrentRow(u).film_slug

\* C4: when the film loop of a task meets a film id that the shared film table
\* holds under another slug, the task raises; the raise leaves the table as it
\* was, and so does the caller when it takes the error: the orchestrator's
\* except clause merges nothing, generate_user_data ends in error and writes
\* no file.
C4_CollisionRaisesAndKeepsMapping ==
  [][/\ \A u \in Users :
          (Collides(u) /\ next_row'[u] # next_row[u])
            => (pc'[u] = "raised" /\ film_id_map' = film_id_map)
     /\ \A u \in Users :
          (run_pc = "batch" /\ pc[u] = "raised" /\ u \notin processed /\ u \in processed')
            => (film_id_map' = film_id_map /\ all_user_ratings_set' = all_user_ratings_set)
     /\ \A u \in Users :
          (run_pc = "single" /\ pc[u] = "raised" /\ run_pc' = "idle")
            => (exit_status' = "error" /\ disk' = disk)]_vars

\* a task has raised on a film id that the table holds under another slug
C4_Witness ==
  \E u \in Users :
    /\ pc[u] = "raised"
    /\ next_row[u] >= 2
    /\ LET row == FilmRows(film_data[u])[next_row[u] - 1]
       IN /\ row.film_id \in DOMAIN film_id_map
          /\ film_id_map[row.film_id] # row.film_slug

\* the (film_id, film_slug) pairs a task took into its film loop
Observes(u) == IF HoldsId(u) THEN SeqRange(FilmRows(film_data[u])) ELSE {}

FailedWithCollision(u) == pc[u] = "raised" /\ next_row[u] >= 2

\* C5: within one batch, whenever two tasks took the same film id into their
\* film loops under different slugs, one of them failed with the collision
\* error; and no step of the batch replaces the slug the batch's film table
\* holds for a film id.
C5_BatchCollisionDetected ==
  /\ [](BatchComplete =>
          \A u, v \in new_users :
            (\E r \in Observes(u), q \in Observes(v) : r.film_id = q.film_id /\ r.film_slug # q.film_slug)
              => (FailedWithCollision(u) \/ FailedWithCollision(v)))
  /\ [][(run_pc = "batch" /\ run_pc' = "batch")
          => \A f \in DOMAIN film_id_map : f \in DOMAIN film_id_map' /\ film_id_map'[f] = film_id_map[f]]_vars

\* C6: no step of a run, from the film table loaded at its start on, gives a
\* film id that has a slug another slug.
C6_RunNeverRemapsFilm ==
  [][(run_pc # "idle" /\ run_pc' # "idle")
       => \A f \in DOMAIN film_id_to_title : f \in DOMAIN film_id_to_title' /\ film_id_to_title'[f] = film_id_to_title[f]]_vars

SamePair(r, q) == r.user_id = q.user_id /\ r.film_id = q.film_id

\* C7: when a batch's ratings are folded into the cumulative ratings and
\* these are deduplicated, the row kept for each (user_id, film_id) is the one
\* folded in last, and it is the only row of its pair.
C7_DedupKeepsLatest ==
  [][(BatchComplete /\ run_pc' = "select")
       => LET folded == current_users_ratings_df \o combined_user_ratings_df
              kept == current_users_ratings_df'
          IN /\ \A i \in 1..Len(folded) :
                  (\A j \in (i + 1)..Len(folded) : ~SamePair(folded[j], folded[i]))
                    => \E k \in 1..Len(kept) : kept[k] = folded[i]
             /\ \A k, l \in 1..Len(kept) : SamePair(kept[k], kept[l]) => k = l]_vars

\* the film items of page 1 of u that carry a rating
RatedItems(u) == {i \in 1..Len(PageItems(u, 1)) : PageItems(u, 1)[i].raw_rating # <<>>}

\* a batch over u and v has been handled: the site has rated items for u on
\* its first page only and the task got them, it has nothing for v, and
\* neither task raised
FirstPageOnlyAndEmpty(u, v) ==
  /\ BatchComplete
  /\ new_users = {u, v}
  /\ u # v
  /\ Len(SitePages[u]) = 1
  /\ RatedItems(u) # {}
  /\ SitePages[v] = <<>>
  /\ pc[u] = "returned"
  /\ pc[v] \in {"returned", "skipped"}

\* the batch's ratings are the rated items of u's first page under u's id
OnlyRowsOf(u) ==
  /\ u \in DOMAIN user_id_mapping
  /\ Len(combined_user_ratings_df) = Cardinality(RatedItems(u))
  /\ \A i \in 1..Len(combined_user_ratings_df) : combined_user_ratings_df[i].user_id = user_id_mapping[u]
  /\ {combined_user_ratings_df[i].film_id : i \in 1..Len(combined_user_ratings_df)}
       = {PageItems(u, 1)[i].film_id : i \in RatedItems(u)}

C9_FailureLeavesSiblingsUntouched ==
  BatchComplete =>
    LET failed == {u \in new_users : pc[u] = "raised"}
        spared == NewKeys \ failed
    IN /\ \A u \in new_users : Done(u)
       /\ \A i \in 1..Len(combined_user_ratings_df) :
            \E u \in (new_users \ failed) \cap DOMAIN user_id_mapping :
              combined_user_ratings_df[i].user_id = user_id_mapping[u]
       /\ {user_id_mapping[k] : k \in spared} = (MaxAtEntry + 1)..(MaxAtEntry + Cardinality(spared))

PaginateReturned(u) == pc[u] \in {"waiting", "locked", "assign", "films", "returned", "skipped"}

\* every record the site's pages of u yield
AllRecords(u) == SeqRange(Flatten([p \in 1..Len(SitePages[u]) |-> page_film_data(SitePages[u][p])]))

\* C10: a paginator that returned normally did not stop on requests that
\* failed in transport: it holds the records of every page of the user.
C10_NoPageLostToTransport ==
  \A u \in Users : PaginateReturned(u) => AllRecords(u) \subseteq SeqRange(film_data[u])

\* every attempt of the fetch in progress has failed
FetchExhausted == FetchingUserList /\ attempt = max_retries

\* C11: when every allowed attempt of a fetch has failed, the call hands
\* nothing back to its caller: the step that follows ends the process with
\* exit(1), and no batch is started from a response or a None.
C11_ExhaustedFetchNeverReturns ==
  [][FetchExhausted => (run_pc' = "idle" /\ exit_status' = "aborted" /\ new_users' = new_users)]_vars

\* a process ended in exit(1) after max_retries failed requests
C11_Witness == run_pc = "idle" /\ exit_status = "aborted" /\ processes_started >= 1

\* C12: when a fetch has used up its attempts the process is not aborted:
\* the run goes on with what is left of it.
C12_ExhaustionDoesNotAbortProcess ==
  [][FetchExhausted => (run_pc' # "idle" /\ exit_status' # "aborted")]_vars

\* C13: the pages a paginator has submitted are 1, 2, 3, ... without gap or
\* repeat, batch_size at a time; and after a batch whose pages all returned
\* the paginator stops exactly when none of them returned records.
C13_PagesInConsecutiveBatches ==
  /\ [](\A u \in Users :
          /\ Len(pages_requested[u]) % batch_size = 0
          /\ \A i \in 1..Len(pages_requested[u]) : pages_requested[u][i] = i)
  /\ [][\A u \in Users :
          (pc[u] = "fetching" /\ pages_requested'[u] # pages_requested[u])
            => /\ Len(pages_requested'[u]) = Len(pages_requested[u]) + batch_size
               /\ pc'[u] # "raised" => ((pc'[u] # "fetching") <=> (film_data'[u] = film_data[u]))]_vars

\* a paginator went on after a first batch with records and stopped after a
\* second batch without
C13_Witness ==
  \E u \in Users :
    /\ pc[u] = "waiting"
    /\ Len(pages_requested[u]) = 2 * batch_size
    /\ film_data[u] # <<>>

FullGlyphs(text) == Len(SelectSeq(text, LAMBDA g : g = Star))

HasHalfGlyph(text) == \E i \in 1..Len(text) : text[i] = Half

\* C14: a film item whose rating is absent or empty gives no record; any
\* other gives one record whose score, in half stars, is twice the number of
\* full glyphs plus one if a half glyph is present.
C14_GlyphsToScore ==
  item_scraped =>
    IF raw_rating_of(rating_span) = <<>>
    THEN item_film_data = <<>>
    ELSE /\ Len(item_film_data) = 1
         /\ item_film_data[1].rating = 2 * FullGlyphs(raw_rating_of(rating_span))
                                        + (IF HasHalfGlyph(raw_rating_of(rating_span)) THEN 1 ELSE 0)

\* three full glyphs and a half gave the record 3.5
C14_Witness ==
  /\ item_scraped
  /\ rating_span = [exists |-> TRUE, text |-> <<Star, Star, Star, Half>>]
  /\ Len(item_film_data) = 1
  /\ item_film_data[1].rating = 7

\* C15: a record is stored only for a text with at least one glyph, its
\* score is a multiple of 0.5 from 0.0 to 5.0, and a text without glyph gives
\* no record.
C15_StoredOnlyWithGlyph ==
  item_scraped =>
    LET text == IF rating_span.exists THEN rating_span.text ELSE <<>>
        has_glyph == FullGlyphs(text) > 0 \/ HasHalfGlyph(text)
    IN /\ item_film_data # <<>> => (has_glyph /\ item_film_data[1].rating \in 0..10)
       /\ ~has_glyph => item_film_data = <<>>

C17_SnapshotsAreNeverModified ==
  /\ [](\A name \in DOMAIN versioned_files : name[1] = RAW_RATINGS_PREFIX)
  /\ [][(BatchComplete /\ run_pc' # "batch")
          => /\ raw_ratings_file'.exists /\ translated_ratings_file'.exists
             /\ film_mappings_file'.exists /\ user_mappings_file'.exists
             /\ versioned_files' # versioned_files => VERSIONING_TOGGLE
             /\ \A name \in DOMAIN versioned_files :
                  name \in DOMAIN versioned_files' /\ versioned_files'[name] = versioned_files[name]]_vars

\* where the task of u stands in a batch, in the terms of the task state
\* machine: Empty is the return at line 37, IdentityResolved begins with the
\* release of the lock, Merged is the success branch of the as_completed loop
TaskState(u) ==
  IF run_pc # "batch" THEN "None"
  ELSE CASE pc[u] = "pending" -> "Pending"
         [] pc[u] = "fetching" -> "Fetching"
         [] pc[u] = "skipped" -> "Empty"
         [] pc[u] \in {"waiting", "locked", "assign"} -> "HasRecords"
         [] pc[u] = "films" -> "IdentityResolved"
         [] pc[u] = "returned" /\ u \notin processed -> "IdentityResolved"
         [] pc[u] = "returned" /\ u \in processed -> "Merged"
         [] pc[u] = "raised" -> "Failed"
         [] OTHER -> "None"

\* the moves of a task that both readings of the state machine allow
CommonEdges ==
  {<<"Pending", "Fetching">>, <<"Fetching", "Empty">>, <<"Fetching", "HasRecords">>,
   <<"HasRecords", "IdentityResolved">>, <<"IdentityResolved", "Merged">>,
   <<"Fetching", "Failed">>, <<"IdentityResolved", "Failed">>}

\* a task stays where it is, moves along one of the edges, or the batch
\* begins or ends
MovesAlong(edges) ==
  \A u \in Users :
    \/ TaskState(u)' = TaskState(u)
    \/ <<TaskState(u), TaskState(u)'>> \in edges
    \/ (run_pc # "batch" /\ TaskState(u)' \in {"None", "Pending"})
    \/ (run_pc' # "batch" /\ BatchComplete)

\* a merge folds in the task's rows; the orchestrator folds in nothing of a
\* failed or an empty task, and no task leaves Failed within the batch
MergeOnlyOfSuccess ==
  \A u \in Users :
    /\ (TaskState(u) = "IdentityResolved" /\ TaskState(u)' = "Merged")
         => all_user_ratings_set' = Append(all_user_ratings_set, df_encoded_values(film_data[u], numeric_user_id[u]))
    /\ (TaskState(u) \in {"Failed", "Empty"} /\ run_pc' = "batch")
         => (/\ TaskState(u)' = TaskState(u)
             /\ (u \notin processed /\ u \in processed')
                  => (all_user_ratings_set' = all_user_ratings_set /\ film_id_map' = film_id_map))

WithinBatch == run_pc = "batch" /\ run_pc' = "batch"

\* the thread that holds max_user_id_lock takes the step
StepOfLockHolder == max_user_id_lock # Free /\ pc'[max_user_id_lock] # pc[max_user_id_lock]

\* C19: within a batch, every step that changes the identity table or the
\* batch's max_user_id is a step of the thread that holds max_user_id_lock.
C19_SharedWritesUnderLock ==
  [][(WithinBatch /\ (user_id_mapping' # user_id_mapping \/ max_user_id' # max_user_id))
       => StepOfLockHolder]_vars

\* the as_completed loop runs in the thread that called fetch_all_user_data
Orchestrator == "orchestrator"

\* C20: within a batch no step of a task changes the batch's film table; a
\* step that merges staged mappings into it is taken by the orchestrator
\* while it holds max_user_id_lock, and no task is in its film loop, checking
\* rows against the table, when the merge happens.
C20_MergeUnderLock ==
  [][WithinBatch =>
       /\ (\E u \in Users : pc'[u] # pc[u]) => film_id_map' = film_id_map
       /\ film_id_map' # film_id_map
            => (max_user_id_lock = Orchestrator /\ \A u \in Users : pc[u] # "films")]_vars

\* the last page of u that the site has records (rated film items) on
LastPageWithRecords(u) == MaxOf({p \in 1..Len(SitePages[u]) : page_film_data(SitePages[u][p]) # <<>>}, 0)

\* the pages u's paginator has requested beyond the last page with records
Overshoot(u) == Len(pages_requested[u]) - LastPageWithRecords(u)

\* C21 as stated: a paginator requests at most batch_size pages beyond the
\* last page that has records.
C21_OvershootWithinOneBatch ==
  \A u \in Users : Overshoot(u) <= batch_size

\* C21 amended: a paginator requests at most 2 * batch_size - 1 pages beyond
\* the last page that has records: the batch that holds the last such page
\* runs to its end, and one whole batch without records follows it.
C21_OvershootWithinTwoBatches ==
  \A u \in Users : Overshoot(u) <= 2 * batch_size - 1

\* a paginator whose only page with records is page 1 stopped after it had
\* requested two batches
C21_Witness ==
  \E u \in Users :
    /\ PaginateReturned(u)
    /\ LastPageWithRecords(u) = 1
    /\ Overshoot(u) = 2 * batch_size - 1

\* the paginator of u's task is in its while loop
Paginating(u) == pc[u] = "fetching"

\* C22: a paginator over a user with finitely many pages of records, whose
\* submitted pages all complete, leaves its loop in the end: it returns, or
\* an exception out of a page request ends it. When it returns, the batch it
\* requested last gave no record: nothing but the end of the data stops it,
\* however many pages it has requested.
C22_PaginatorStopsOnlyAtEndOfData ==
  /\ \A u \in Users : Paginating(u) ~> (PaginateReturned(u) \/ pc[u] = "raised")
  /\ [][\A u \in Users :
          (Paginating(u) /\ PaginateReturned(u)')
            => /\ film_data'[u] = film_data[u]
               /\ Len(pages_requested'[u]) = Len(pages_requested[u]) + batch_size]_vars

\* a paginator over a user with records on two pages has returned with them
\* after it had requested a second batch
C22_Witness ==
  \E u \in Users :
    /\ PaginateReturned(u)
    /\ LastPageWithRecords(u) = 2
    /\ Len(film_data[u]) = 2
    /\ Len(pages_requested[u]) = 2 * batch_size

\* the records of page p of u are in u's film_data: the request for the page
\* completed with them
Received(u, p) == SeqRange(page_film_data(PageItems(u, p))) \subseteq SeqRange(film_data[u])

\* the records u's paginator received, had its pages completed in the order
\* of their page numbers
RecordsInPageOrder(u) ==
  Flatten([p \in 1..Len(SitePages[u]) |-> IF Received(u, p) THEN page_film_data(PageItems(u, p)) ELSE <<>>])

\* the rows the deduplication by (user_id, film_id) keeps of a task's records
KeptRatings(u, records) == SeqRange(drop_duplicates(df_encoded_values(records, numeric_user_id[u])))

\* C23: the ratings of a user that the deduplication by (user_id, film_id)
\* keeps are those it keeps when the user's pages complete in the order of
\* their page numbers: the order of completion within a batch decides nothing.
C23_KeptRatingsIndependentOfPageOrder ==
  \A u \in Users :
    (run_pc = "batch" /\ pc[u] = "returned")
      => KeptRatings(u, film_data[u]) = KeptRatings(u, RecordsInPageOrder(u))

\* fetch_new_popular_users takes a username only when it is not in the set
\* of existing users (line 101)
Eligible(u, existing) == u \notin existing

\* the rows of a ratings frame that stand under the id the identity table
\* holds for u
RowsOf(u, df) == {i \in 1..Len(df) : u \in DOMAIN user_id_mapping /\ df[i].user_id = user_id_mapping[u]}

\* C24: when a batch has been handled and the run goes on, a user whose task
\* failed in it has no row in the batch's merged ratings and can be selected
\* again: the user is not among the existing users the next selection
\* excludes.
C24_FailedUserStaysEligible ==
  [][(BatchComplete /\ run_pc' = "select")
       => \A u \in new_users :
            pc[u] = "raised"
              => (RowsOf(u, combined_user_ratings_df) = {} /\ Eligible(u, existing_users'))]_vars

\* the larger of two numbers
Larger(a, b) == IF b > a THEN b ELSE a

\* the as_completed loop takes the result of u's task
Handles(u) == run_pc = "batch" /\ u \notin processed /\ u \in processed'

\* C25: while the orchestrator merges the tasks of a batch in the order they
\* complete, the batch's max_user_id never goes down, and the merge of a
\* task leaves it at the larger of its value before and the max id the task
\* reported.
C25_MaxIdTrackerIsRunningMaximum ==
  /\ [][WithinBatch => max_user_id' >= max_user_id]_vars
  /\ [][\A u \in Users :
          (Handles(u) /\ pc[u] = "returned")
            => max_user_id' = Larger(max_user_id, task_max_user_id[u])]_vars

\* a request of the fetch in progress failed: the loop goes to its next turn
AttemptFailed == FetchingUserList /\ attempt' = attempt + 1

\* a request of the fetch in progress ended in status 200 and its response
\* went back to fetch_new_popular_users, which returned users or none
ResponseReturned ==
  /\ FetchingUserList
  /\ run_pc' = "batch" \/ (run_pc' = "idle" /\ exit_status' = "ok")

\* C26: a fetch makes at most max_retries requests: the attempt that fails is
\* numbered below max_retries, and the request that succeeds is at most the
\* max_retries-th; the response of the first request that succeeds goes back
\* at once, with no further attempt and no sleep; and after the failed
\* attempt numbered k the fetch sleeps once, between 0 and base_delay * 2^k
\* seconds.
C26_BoundedRequestsWithBackoff ==
  /\ [](attempt \in 0..max_retries)
  /\ [][/\ AttemptFailed => (attempt < max_retries /\ sleep_time' \in 0..(base_delay * 2^attempt))
        /\ ResponseReturned => (attempt + 1 <= max_retries /\ attempt' = 0 /\ sleep_time' = 0)
        /\ (FetchingUserList /\ attempt' # attempt) => (AttemptFailed \/ attempt' = 0)]_vars

\* the attempts numbered 0 to 3 of a fetch have failed, and the fetch has
\* slept the full base_delay * 2^3 seconds after the last of them
C26_Witness ==
  /\ FetchingUserList
  /\ attempt = max_retries - 1
  /\ sleep_time = base_delay * 2^(max_retries - 2)

\* the page requests that run at this moment, over all tasks
ConcurrentPageRequests == LET S[t \in 0..MaxPoolTasks] == IF t = 0 THEN 0 ELSE S[t - 1] + page_futures[t]
                          IN S[MaxPoolTasks]

\* C27: at every moment of a batch at most 5 tasks execute, each of them has
\* at most 5 page requests running, only a task that executes has any, and
\* so at most 25 page requests run at once.
C27_AtMostTwentyFiveRequests ==
  /\ Cardinality({t \in 1..MaxPoolTasks : Executing(t)}) <= 5
  /\ \A t \in 1..MaxPoolTasks : page_futures[t] <= 5 /\ (page_futures[t] > 0 => Executing(t))
  /\ ConcurrentPageRequests <= 25

\* five tasks execute with five page requests each while a sixth waits
C27_Witness ==
  /\ ConcurrentPageRequests = 25
  /\ \E t \in 1..MaxPoolTasks : user_futures[t] = "queued"

\* C28: when a batch has been handled, a user whose task failed with the
\* film collision error and who had no id when the batch began has none in
\* the identity table the batch returns: the failed task left the table as
\* it found it.
C28_CollisionLeavesNoId ==
  BatchComplete =>
    \A u \in new_users :
      (FailedWithCollision(u) /\ u \notin DOMAIN mapping_at_entry) => u \notin DOMAIN user_id_mapping

\* C29: when a batch has been handled, the max_user_id that
\* fetch_all_user_data returns is the largest id in the identity table it
\* returns, or the max_user_id it was called with when the table is empty,
\* whatever tasks returned, were skipped or raised and in whatever order
\* they completed.
C29_ReturnedMaxIsLargestId ==
  BatchComplete =>
    max_user_id = IF user_id_mapping = EmptyMap THEN run_max_user_id ELSE MaxOf(Range(user_id_mapping), 0)

\* the user ids of the rows of a ratings frame
SubjectIds(df) == {df[i].user_id : i \in 1..Len(df)}

\* C30: in a run that resumes from the files, an id that a batch gives to a
\* key is not the user_id of a row of the cumulative ratings the run holds
\* from before the batch, also when the user mappings file was missing or
\* unreadable at the start and the identity table began empty.
C30_NewIdNotInLoadedRatings ==
  run_pc = "batch" =>
    \A k \in NewKeys : user_id_mapping[k] \notin SubjectIds(current_users_ratings_df)

\* the ids the persisted identity table and the persisted film table hold
PersistedUserIds == {user_mappings_file.rows[i].numeric_user_id : i \in 1..Len(user_mappings_file.rows)}

PersistedFilmIds == {AsStr(film_mappings_file.rows[i].film_id) : i \in 1..Len(film_mappings_file.rows)}

\* every row of the latest raw ratings file has its user_id in the user
\* mappings file and its film_id in the film mappings file
RatingsHaveMappings ==
  \A i \in 1..Len(raw_ratings_file.rows) :
    /\ raw_ratings_file.rows[i].user_id \in PersistedUserIds
    /\ AsStr(raw_ratings_file.rows[i].film_id) \in PersistedFilmIds

\* save_final_data has run for the batch, to its end or to a raise
BatchSaved == BatchComplete /\ run_pc' # "batch"

\* C31: after save_final_data has run for a batch, whether it returned or
\* raised on its way, every user_id and every film_id of the latest raw
\* ratings file has an entry in the user mappings file and in the film
\* mappings file.
C31_SavedRatingsHaveMappings ==
  [][BatchSaved => RatingsHaveMappings']_vars
====
